---- MODULE Spec2Model ----
(***************************************************************************)
(* State-machine model of tasks.py (robot-order-automation): the task      *)
(* order_robot_from_RobotSpareBin and the functions it calls, one action   *)
(* per call, with the local filesystem (orders.csv, output/receipts,       *)
(* output/screenshots, output/receipts.zip) as state.  The browser, the    *)
(* remote site and the libraries are the environment: what the page shows  *)
(* after a submit and whether a call raises are nondeterministic.          *)
(***************************************************************************)
EXTENDS Integers, Sequences, FiniteSets, TLC

\* ------------------------------------------------------------- bounds
MaxOrders == 2
MaxAttempts == 2
MaxRuns == 2
MaxCalls == 2

VARIABLES
    run,            \* number of the current run of the task
    pc,             \* the call the task is about to make
    exc,            \* the exception that ended the run ("none": no exception)
    stages,         \* the calls of the task body completed in this run, in order
    remote,         \* "Order number" column of the remote orders.csv
    csvExists,      \* local orders.csv exists
    csv,            \* its "Order number" column
    csvWriter,      \* the run whose download wrote it (0: left by earlier runs)
    robot_orders,   \* the table read by fill_form_with_csv_data
    k,              \* position of the current row in robot_orders
    order,          \* the current row
    selected,       \* option selected in the #head dropdown
    attempts,       \* clicks on #order for the current row
    events,         \* what was done for the current row, in order
    succeeded,      \* the order numbers of the rows completed in this run
    receiptsDir,    \* output/receipts exists
    receipts,       \* its files: name (without .pdf) -> content
    screenshotsDir, \* output/screenshots exists
    screenshots,    \* its files: names (without .png)
    zipExists,      \* output/receipts.zip exists
    zip,            \* its entries: names (without .pdf)
    zipWritten,     \* this run wrote output/receipts.zip
    start,          \* the filesystem as the current run found it
    prev,           \* how the previous run ended
    calls,          \* direct calls of clean_up (0 inside a run of the task)
    before          \* the filesystem before the latest clean_up call

vars == <<run, pc, exc, stages, remote, csvExists, csv, csvWriter, robot_orders, k,
          order, selected, attempts, events, succeeded, receiptsDir, receipts, screenshotsDir,
          screenshots, zipExists, zip, zipWritten, start, prev, calls, before>>

\* ------------------------------------------------------ data and helpers
Digits == <<"0", "1", "2", "3", "4", "5", "6", "7", "8", "9">>

IsDigit(c) == \E i \in 1..10 : Digits[i] = c

DigitValue(c) == (CHOOSE i \in 1..10 : Digits[i] = c) - 1

\* int(s) of a string of characters; -1 stands for ValueError.
RECURSIVE IntOf(_)
IntOf(s) ==
    IF s = <<>> \/ \E i \in 1..Len(s) : ~IsDigit(s[i]) THEN -1
    ELSE IF Len(s) = 1 THEN DigitValue(s[1])
    ELSE 10 * IntOf(SubSeq(s, 1, Len(s) - 1)) + DigitValue(s[Len(s)])

\* f"{n}" of a non-negative integer.
RECURSIVE StrOf(_)
StrOf(n) ==
    IF n < 10 THEN <<Digits[n + 1]>>
    ELSE StrOf(n \div 10) \o <<Digits[(n % 10) + 1]>>

\* The values of the "Order number" column the model draws from.
OrderNumbers == {<<"1">>, <<"2">>, <<"0", "1">>, <<"x">>}

\* The values of the "Head" column the model draws from.
HeadValues == {"1", "2", "3", "4", "5", "6", "9", "0", ""}

\* A file name an earlier run may have left behind.
Stale == <<"9">>

head_options ==
    [h \in {"1", "2", "3", "4", "5", "6"} |->
        CASE h = "1" -> "Roll-a-thor head"
          [] h = "2" -> "Peanut crusher head"
          [] h = "3" -> "D.A.V.E head"
          [] h = "4" -> "Andy Roid head"
          [] h = "5" -> "Spanner mate head"
          [] h = "6" -> "Drillbit 2000 head"]

\* Variant of HeadLookup that indexes the table: head_options[head_number].
HeadLookupStrict(head_number) ==
    IF head_number \in DOMAIN head_options THEN head_options[head_number]
    ELSE "KeyError"

\* head_options.get(head_number, head_options["1"])
HeadLookup(head_number) ==
    IF head_number \in DOMAIN head_options THEN head_options[head_number]
    ELSE head_options["1"]

NoOrder == [Head |-> "none", OrderNumber |-> <<>>]

NoFiles == [n \in {} |-> [run |-> 0, k |-> 0, merged |-> FALSE]]

SeqsUpTo(S, n) == UNION {[1..m -> S] : m \in 0..n}

FileSystem ==
    [receiptsDir |-> receiptsDir, receipts |-> receipts,
     screenshotsDir |-> screenshotsDir, screenshots |-> screenshots,
     zipExists |-> zipExists, zip |-> zip]

NoPrev == [done |-> FALSE, zip |-> {}, stale |-> {}]

\* Variant of Raise with per-row isolation: an exception raised while a row is
\* processed is dropped and the loop goes on with the next row.
RaiseAndSkipRow(e) ==
    /\ exc' = e
    /\ pc' = IF pc \in {"fill", "submit", "probe", "receipt", "screenshot",
                        "merge", "another", "ok"}
             THEN "iter" ELSE "aborted"

\* An unhandled exception leaves the task: nothing in tasks.py catches it
\* except the FileNotFoundError of clean_up.
Raise(e) ==
    /\ exc' = e
    /\ pc' = "aborted"

\* Variant of StageAfter that cleans up before it archives.
StageAfterSwapped(stage) ==
    CASE stage = "open" -> "download"
      [] stage = "download" -> "read"
      [] stage = "loop" -> "cleanup"
      [] stage = "cleanup" -> "archive"
      [] stage = "archive" -> "done"

\* The order of the calls in the body of order_robot_from_RobotSpareBin.
StageAfter(stage) ==
    CASE stage = "open" -> "download"
      [] stage = "download" -> "read"
      [] stage = "loop" -> "archive"
      [] stage = "archive" -> "cleanup"
      [] stage = "cleanup" -> "done"

\* --------------------------------------------------------------- Init
StaleFile == [n \in {Stale} |-> [run |-> 0, k |-> 0, merged |-> TRUE]]

InitFiles ==
    /\ receiptsDir \in BOOLEAN
    /\ receipts \in {NoFiles} \cup
         (IF receiptsDir
          THEN {StaleFile}
          ELSE {})
    /\ screenshotsDir \in BOOLEAN
    /\ screenshots = IF screenshotsDir THEN {Stale} ELSE {}
    /\ zipExists \in BOOLEAN
    /\ zip = IF zipExists THEN {Stale} ELSE {}

InitRest ==
    /\ exc = "none"
    /\ stages = <<>>
    /\ robot_orders = <<>>
    /\ k = 0
    /\ order = NoOrder
    /\ selected = "none"
    /\ attempts = 0
    /\ events = <<>>
    /\ succeeded = <<>>
    /\ zipWritten = FALSE
    /\ prev = NoPrev
    /\ before = FileSystem
    /\ start = FileSystem

\* An earlier, aborted run left the files of an order 1, a number the
\* orders.csv of this run may hold too.
StaleSame == [n \in {<<"1">>} |-> [run |-> 0, k |-> 1, merged |-> TRUE]]

\* What the task finds when it starts: nothing, or what an earlier run on
\* another orders.csv left (an aborted run its directories, a completed run its
\* archive, a run whose clean_up raised half of both).
Leftovers ==
    {[csvExists |-> FALSE, receiptsDir |-> FALSE, receipts |-> NoFiles,
      screenshotsDir |-> FALSE, screenshots |-> {}, zipExists |-> FALSE, zip |-> {}],
     [csvExists |-> TRUE, receiptsDir |-> TRUE, receipts |-> StaleFile,
      screenshotsDir |-> TRUE, screenshots |-> {Stale}, zipExists |-> FALSE, zip |-> {}],
     [csvExists |-> TRUE, receiptsDir |-> TRUE, receipts |-> StaleSame,
      screenshotsDir |-> TRUE, screenshots |-> {<<"1">>}, zipExists |-> FALSE, zip |-> {}],
     [csvExists |-> TRUE, receiptsDir |-> TRUE, receipts |-> NoFiles,
      screenshotsDir |-> FALSE, screenshots |-> {}, zipExists |-> FALSE, zip |-> {}],
     [csvExists |-> TRUE, receiptsDir |-> FALSE, receipts |-> NoFiles,
      screenshotsDir |-> FALSE, screenshots |-> {}, zipExists |-> TRUE, zip |-> {Stale}],
     [csvExists |-> TRUE, receiptsDir |-> FALSE, receipts |-> NoFiles,
      screenshotsDir |-> TRUE, screenshots |-> {Stale}, zipExists |-> TRUE,
      zip |-> {Stale}]}

Init ==
    /\ run = 1
    /\ pc = "open"
    /\ calls = 0
    /\ remote \in SeqsUpTo(OrderNumbers, MaxOrders)
    /\ \E f \in Leftovers :
          /\ csvExists = f.csvExists
          /\ receiptsDir = f.receiptsDir
          /\ receipts = f.receipts
          /\ screenshotsDir = f.screenshotsDir
          /\ screenshots = f.screenshots
          /\ zipExists = f.zipExists
          /\ zip = f.zip
    /\ csv = IF csvExists THEN <<Stale>> ELSE <<>>
    /\ csvWriter = 0
    /\ InitRest

\* ------------------------------------------------------------ actions
csvVars == <<csvExists, csv, csvWriter>>
rowVars == <<robot_orders, k, order, selected, attempts, events, succeeded>>
dirVars == <<receiptsDir, receipts, screenshotsDir, screenshots>>
zipVars == <<zipExists, zip, zipWritten>>
ghostVars == <<start, prev, calls, before>>

\* A call raises and nothing else changes.
Fault(e) ==
    /\ Raise(e)
    /\ UNCHANGED <<run, stages, remote, csvVars, rowVars, dirVars, zipVars, ghostVars>>

\* A call of the task body returns and the next one is due.
Finish(stage) ==
    /\ pc' = StageAfter(stage)
    /\ stages' = Append(stages, stage)
    /\ exc' = exc

\* Variant of FileName that names the files by the cell as it is written.
FileNameAsWritten(o) == o.OrderNumber

\* The name store_receipt_as_pdf and screenshot_robot derive from the row:
\* f"{int(order['Order number'])}".
FileName(o) == StrOf(IntOf(o.OrderNumber))

open_robot_order_website ==
    /\ pc = "open"
    /\ \/ /\ Finish("open")
          /\ UNCHANGED <<run, remote, csvVars, rowVars, dirVars, zipVars, ghostVars>>
       \/ Fault("Error")

\* Variant of HttpDownload with overwrite=False: an existing file is kept.
HttpDownloadKeep ==
    /\ csvExists' = TRUE
    /\ csv' = IF csvExists THEN csv ELSE remote
    /\ csvWriter' = IF csvExists THEN csvWriter ELSE run

\* http.download(url, overwrite=True)
HttpDownload ==
    /\ csvExists' = TRUE
    /\ csv' = remote
    /\ csvWriter' = run

download_orders_file ==
    /\ pc = "download"
    /\ \/ /\ HttpDownload
          /\ Finish("download")
          /\ UNCHANGED <<run, remote, rowVars, dirVars, zipVars, ghostVars>>
       \/ Fault("Error")

\* tables.read_table_from_csv("orders.csv")
fill_form_with_csv_data ==
    /\ pc = "read"
    /\ \/ /\ csvExists
          /\ robot_orders' = csv
          /\ k' = 0
          /\ pc' = "iter"
          /\ UNCHANGED <<succeeded, run, exc, stages, remote, csvVars, order, selected, attempts,
                         events, dirVars, zipVars, ghostVars>>
       \/ Fault("Error")

\* for order in robot_orders: the next row, or the end of the loop.  The row's
\* Head cell is drawn when the row is reached.
ForEachOrder ==
    /\ pc = "iter"
    /\ IF k < Len(robot_orders)
       THEN /\ \E h \in HeadValues :
                 order' = [Head |-> h, OrderNumber |-> robot_orders[k + 1]]
            /\ k' = k + 1
            /\ attempts' = 0
            /\ events' = <<>>
            /\ pc' = "fill"
            /\ UNCHANGED <<succeeded, run, exc, stages, remote, csvVars, robot_orders, selected,
                           dirVars, zipVars, ghostVars>>
       ELSE /\ Finish("loop")
            /\ UNCHANGED <<run, remote, csvVars, rowVars, dirVars, zipVars, ghostVars>>

\* fill_and_submit_robot_data, the form fields.
FillForm ==
    /\ pc = "fill"
    /\ LET option == HeadLookup(order.Head) IN
       IF option = "KeyError" THEN Fault("KeyError")
       ELSE \/ /\ selected' = option
               /\ events' = Append(events, "fill")
               /\ pc' = "submit"
               /\ UNCHANGED <<succeeded, run, exc, stages, remote, csvVars, robot_orders, k, order,
                              attempts, dirVars, zipVars, ghostVars>>
            \/ Fault("Error")

\* page.click("#order")
ClickOrder ==
    /\ pc = "submit"
    /\ \/ /\ attempts' = attempts + 1
          /\ events' = Append(events, "submit")
          /\ pc' = "probe"
          /\ UNCHANGED <<succeeded, run, exc, stages, remote, csvVars, robot_orders, k, order,
                         selected, dirVars, zipVars, ghostVars>>
       \/ Fault("Error")

\* Variant of AfterProbe without the test of the probe's result.
AfterProbeUnchecked(found) == "receipt"

\* Variant of AfterProbe that gives the row up when the indicator is absent.
AfterProbeGiveUp(found) == IF found THEN "receipt" ELSE "iter"

\* if order_another: ... break; otherwise the while True loop goes round.
AfterProbe(found) == IF found THEN "receipt" ELSE "submit"

\* order_another = page.query_selector("#order-another")
QueryOrderAnother ==
    /\ pc = "probe"
    /\ \E found \in BOOLEAN :
          /\ found \/ attempts < MaxAttempts
          /\ pc' = AfterProbe(found)
          /\ events' = IF found THEN Append(events, "seen") ELSE events
    /\ UNCHANGED <<succeeded, run, exc, stages, remote, csvVars, robot_orders, k, order, selected,
                   attempts, dirVars, zipVars, ghostVars>>

store_receipt_as_pdf ==
    /\ pc = "receipt"
    /\ IF IntOf(order.OrderNumber) = -1 THEN Fault("ValueError")
       ELSE \/ /\ receiptsDir' = TRUE
               /\ receipts' =
                    [n \in DOMAIN receipts \cup {FileName(order)} |->
                        IF n = FileName(order)
                        THEN [run |-> run, k |-> k, merged |-> FALSE]
                        ELSE receipts[n]]
               /\ events' = Append(events, "receipt")
               /\ pc' = "screenshot"
               /\ UNCHANGED <<succeeded, run, exc, stages, remote, csvVars, robot_orders, k, order,
                              selected, attempts, screenshotsDir, screenshots, zipVars,
                              ghostVars>>
            \/ Fault("Error")
            \/ /\ receiptsDir' = TRUE
               /\ Raise("Error")
               /\ UNCHANGED <<run, stages, remote, csvVars, rowVars, receipts,
                              screenshotsDir, screenshots, zipVars, ghostVars>>

screenshot_robot ==
    /\ pc = "screenshot"
    /\ \/ /\ screenshotsDir' = TRUE
          /\ screenshots' = screenshots \cup {FileName(order)}
          /\ events' = Append(events, "screenshot")
          /\ pc' = "merge"
          /\ UNCHANGED <<succeeded, run, exc, stages, remote, csvVars, robot_orders, k, order,
                         selected, attempts, receiptsDir, receipts, zipVars, ghostVars>>
       \/ /\ screenshotsDir' = TRUE
          /\ Raise("Error")
          /\ UNCHANGED <<run, stages, remote, csvVars, rowVars, receiptsDir, receipts,
                         screenshots, zipVars, ghostVars>>

embed_screenshot_to_receipt ==
    /\ pc = "merge"
    /\ \/ /\ receipts' = [receipts EXCEPT ![FileName(order)].merged = TRUE]
          /\ events' = Append(events, "merge")
          /\ pc' = "another"
          /\ UNCHANGED <<succeeded, run, exc, stages, remote, csvVars, robot_orders, k, order,
                         selected, attempts, receiptsDir, screenshotsDir, screenshots,
                         zipVars, ghostVars>>
       \/ Fault("Error")

order_another_bot ==
    /\ pc = "another"
    /\ \/ /\ events' = Append(events, "another")
          /\ pc' = "ok"
          /\ UNCHANGED <<succeeded, run, exc, stages, remote, csvVars, robot_orders, k, order,
                         selected, attempts, dirVars, zipVars, ghostVars>>
       \/ Fault("Error")

\* The row is done: fill_and_submit_robot_data returns and its locals, with
\* what it chose in the form, are gone.
click_ok_after_order ==
    /\ pc = "ok"
    /\ \/ /\ events' = Append(events, "ok")
          /\ succeeded' = Append(succeeded, order.OrderNumber)
          /\ pc' = "iter"
          /\ order' = NoOrder
          /\ selected' = "none"
          /\ UNCHANGED <<run, exc, stages, remote, csvVars, robot_orders, k, attempts,
                         dirVars, zipVars, ghostVars>>
       \/ Fault("Error")

\* lib.archive_folder_with_zip("./output/receipts", "./output/receipts.zip"): the
\* files of the folder become the entries of a new archive.  What the library
\* does with a missing or empty folder is not fixed here: it raises or it writes
\* an archive without entries.
archive_receipts ==
    /\ pc = "archive"
    /\ \/ /\ zipExists' = TRUE
          /\ zip' = DOMAIN receipts
          /\ zipWritten' = TRUE
          /\ Finish("archive")
          /\ UNCHANGED <<run, remote, csvVars, rowVars, dirVars, ghostVars>>
       \/ Fault("Error")

\* Variant of Handled for a clean_up without its try/except.
HandledNever(e) == FALSE

\* except FileNotFoundError: pass
Handled(e) == e = "FileNotFoundError"

clean_up ==
    /\ pc = "cleanup"
    /\ before' = FileSystem
    /\ UNCHANGED <<run, remote, csvVars, rowVars, zipVars, start, prev, calls>>
    /\ IF ~receiptsDir
       THEN \* shutil.rmtree("./output/receipts") raises FileNotFoundError
            /\ UNCHANGED dirVars
            /\ IF Handled("FileNotFoundError")
               THEN Finish("cleanup")
               ELSE Raise("FileNotFoundError") /\ UNCHANGED stages
       ELSE \/ \* the first rmtree fails for another reason
               /\ UNCHANGED dirVars
               /\ Raise("PermissionError")
               /\ UNCHANGED stages
            \/ /\ receiptsDir' = FALSE
               /\ receipts' = NoFiles
               /\ IF ~screenshotsDir
                  THEN \* shutil.rmtree("./output/screenshots") raises FileNotFoundError
                       /\ UNCHANGED <<screenshotsDir, screenshots>>
                       /\ IF Handled("FileNotFoundError")
                          THEN Finish("cleanup")
                          ELSE Raise("FileNotFoundError") /\ UNCHANGED stages
                  ELSE \/ /\ screenshotsDir' = FALSE
                          /\ screenshots' = {}
                          /\ Finish("cleanup")
                       \/ /\ UNCHANGED <<screenshotsDir, screenshots>>
                          /\ Raise("PermissionError")
                          /\ UNCHANGED stages

\* The task is run again (a new process, a new browser) after a run that
\* completed, on the files that run left.  What an aborted run leaves is among
\* Leftovers.
StartRun ==
    /\ pc = "done"
    /\ calls = 0
    /\ run < MaxRuns
    /\ run' = run + 1
    /\ pc' = "open"
    /\ exc' = "none"
    /\ stages' = <<>>
    /\ robot_orders' = <<>>
    /\ k' = 0
    /\ order' = NoOrder
    /\ selected' = "none"
    /\ attempts' = 0
    /\ events' = <<>>
    /\ succeeded' = <<>>
    /\ zipWritten' = FALSE
    /\ start' = FileSystem
    /\ prev' = [done |-> pc = "done", zip |-> zip, stale |-> DOMAIN start.receipts]
    /\ UNCHANGED <<remote, csvVars, dirVars, zipExists, zip, calls, before>>

Next ==
    \/ open_robot_order_website
    \/ download_orders_file
    \/ fill_form_with_csv_data
    \/ ForEachOrder
    \/ FillForm
    \/ ClickOrder
    \/ QueryOrderAnother
    \/ store_receipt_as_pdf
    \/ screenshot_robot
    \/ embed_screenshot_to_receipt
    \/ order_another_bot
    \/ click_ok_after_order
    \/ archive_receipts
    \/ clean_up
    \/ StartRun

Spec == Init /\ [][Next]_vars

\* ------------------------------------------- clean_up called on its own
\* clean_up is called directly, on any state of the two directories, and then
\* called again.
InitCleanUp ==
    /\ run = 1
    /\ pc = "cleanup"
    /\ calls = 1
    /\ remote = <<>>
    /\ csvExists \in BOOLEAN
    /\ csv = IF csvExists THEN <<Stale>> ELSE <<>>
    /\ csvWriter = 0
    /\ InitFiles
    /\ InitRest

CallCleanUpAgain ==
    /\ pc \in {"done", "aborted"}
    /\ calls >= 1
    /\ calls < MaxCalls
    /\ calls' = calls + 1
    /\ pc' = "cleanup"
    /\ exc' = "none"
    /\ prev' = [done |-> pc = "done", zip |-> zip, stale |-> {}]
    /\ UNCHANGED <<run, stages, remote, csvVars, rowVars, dirVars, zipVars, start, before>>

NextCleanUp ==
    \/ clean_up
    \/ CallCleanUpAgain

SpecCleanUp == InitCleanUp /\ [][NextCleanUp]_vars

\* ---------------------------------------------------------- properties
RowPcs == {"fill", "submit", "probe", "receipt", "screenshot", "merge", "another", "ok"}

FilledPcs == RowPcs \ {"fill"}

IsPrefix(s, t) == Len(s) <= Len(t) /\ \A i \in 1..Len(s) : s[i] = t[i]

\* The file names the rows of a table give, when every cell is a number.
Names(rows) == {StrOf(IntOf(rows[i])) : i \in 1..Len(rows)}

\* The run started with no output/receipts, output/screenshots or archive.
CleanStart == ~start.receiptsDir /\ ~start.screenshotsDir /\ ~start.zipExists

\* The option the specification's table names for a Head value.
ExpectedOption(h) ==
    CASE h = "1" -> "Roll-a-thor head"
      [] h = "2" -> "Peanut crusher head"
      [] h = "3" -> "D.A.V.E head"
      [] h = "4" -> "Andy Roid head"
      [] h = "5" -> "Spanner mate head"
      [] h = "6" -> "Drillbit 2000 head"
      [] OTHER -> "Roll-a-thor head"

\* C1: once the form of a row is filled, the head dropdown holds the option the
\* table names for the row's Head when that is "1".."6" and the option of Head
\* "1" for any other Head; no Head value ends the run with a failed lookup.
C1_HeadSelection ==
    /\ exc # "KeyError"
    /\ pc \in FilledPcs => selected = ExpectedOption(order.Head)

C1_Witness ==
    /\ pc = "submit"
    /\ order.Head = "9"
    /\ selected = "Roll-a-thor head"

\* C2 as stated: a completed run that started from an empty output directory,
\* on rows with pairwise distinct identifiers, leaves an archive with exactly
\* one entry <identifier>.pdf per row and neither directory.
C2_Claim ==
    (/\ pc = "done"
     /\ CleanStart
     /\ \A i, j \in 1..Len(remote) : i # j => remote[i] # remote[j])
    => /\ zipExists
       /\ zip = {remote[i] : i \in 1..Len(remote)}
       /\ Cardinality(zip) = Len(remote)
       /\ ~receiptsDir
       /\ ~screenshotsDir

\* C2 amended: a completed run that started from an empty output directory
\* leaves an archive whose entries are named by the integer values of the
\* identifiers, one entry per row when those values are pairwise distinct, and
\* neither directory.
C2_ArchiveByIntegerValue ==
    (pc = "done" /\ CleanStart)
    => /\ zipExists
       /\ zip = Names(remote)
       /\ (\A i, j \in 1..Len(remote) :
              i # j => IntOf(remote[i]) # IntOf(remote[j]))
          => Cardinality(zip) = Len(remote)
       /\ ~receiptsDir
       /\ ~screenshotsDir

C2_Witness ==
    /\ pc = "done"
    /\ CleanStart
    /\ remote = <<(<<"0", "1">>), (<<"2">>)>>
    /\ zip = {<<"1">>, <<"2">>}

\* C3 as stated: when the loop has processed all N rows of a run that found no
\* file in either directory, output/receipts holds exactly N merged PDFs and
\* output/screenshots exactly N images, each row's receipt still its own.
C3_Claim ==
    (/\ pc = "archive"
     /\ DOMAIN start.receipts = {}
     /\ start.screenshots = {})
    => /\ Cardinality(DOMAIN receipts) = Len(robot_orders)
       /\ Cardinality(screenshots) = Len(robot_orders)
       /\ \A i \in 1..Len(robot_orders) :
             LET n == StrOf(IntOf(robot_orders[i])) IN
             /\ n \in DOMAIN receipts
             /\ receipts[n] = [run |-> run, k |-> i, merged |-> TRUE]

\* C4: a clean_up call never ends in FileNotFoundError; it raises only when a
\* directory that exists cannot be removed; and a call made right after a call
\* that returned returns too and leaves every file and directory as it was.
C4_CleanUpIdempotent ==
    /\ exc # "FileNotFoundError"
    /\ pc = "aborted" => exc = "PermissionError" /\ before.receiptsDir
    /\ (calls >= 2 /\ prev.done /\ pc # "cleanup")
       => pc = "done" /\ FileSystem = before

C4_Witness ==
    /\ calls = 2
    /\ prev.done
    /\ pc = "done"
    /\ ~receiptsDir
    /\ screenshotsDir

\* C5 as stated: whenever clean_up returns, neither directory exists and the
\* archive is as it was.
C5_Claim ==
    (calls >= 1 /\ pc = "done")
    => /\ ~receiptsDir
       /\ ~screenshotsDir
       /\ zipExists = before.zipExists
       /\ zip = before.zip

\* C6 as stated (for a file with at least one row): after the second of two
\* completed runs in a row the local orders.csv is the one that run downloaded
\* and the archive has the entries it had after the first.
C6_Claim ==
    (pc = "done" /\ prev.done /\ Len(remote) >= 1)
    => /\ csvWriter = run
       /\ csv = remote
       /\ zip = prev.zip

\* C6 amended: after the second of two completed runs in a row the local
\* orders.csv is the one that run downloaded, the archive has exactly the
\* entries the rows name, and the first run's archive had those and the files
\* output/receipts held when the first run started.
C6_RerunArchive ==
    (pc = "done" /\ prev.done)
    => /\ csvWriter = run
       /\ csv = remote
       /\ zip = Names(remote)
       /\ prev.zip = zip \cup prev.stale

C6_Witness ==
    /\ pc = "done"
    /\ prev.done
    /\ Len(remote) = 2
    /\ Cardinality(zip) = 2
    /\ zip = prev.zip
    /\ csvWriter = 2

\* C7: a probe that finds no indicator is followed by another submit of the
\* same row and a probe has no other way out than that or the receipt; a row is
\* left for the next one only after its indicator was seen; and a run that
\* completes has seen the indicator of every row.
C7_RetryWithoutExit ==
    /\ [][/\ pc = "probe" =>
               /\ pc' \in {"submit", "receipt"}
               /\ k' = k /\ order' = order /\ attempts' = attempts
               /\ pc' = "receipt" => events' = Append(events, "seen")
          /\ (pc = "submit" /\ pc' = "probe") => attempts' = attempts + 1
          /\ (pc \in RowPcs /\ pc' \notin RowPcs \cup {"aborted"}) =>
               /\ pc' = "iter"
               /\ \E i \in 1..Len(events) : events[i] = "seen"
               /\ succeeded' = Append(succeeded, robot_orders[k])
          /\ (pc = "iter" /\ pc' = "archive") => succeeded = robot_orders]_vars
    /\ [](pc \in {"archive", "cleanup", "done"} /\ calls = 0 => succeeded = remote)

C7_Witness ==
    /\ pc = "probe"
    /\ attempts = MaxAttempts
    /\ k = 1
    /\ events = <<"fill">> \o [i \in 1..MaxAttempts |-> "submit"]

\* The events of one row with n clicks on the submit control.
RowEvents(n) ==
    <<"fill">> \o [i \in 1..n |-> "submit"]
        \o <<"seen", "receipt", "screenshot", "merge", "another", "ok">>

\* C8: what is done for a row is a prefix of: fill once, submit one or more
\* times, indicator seen, receipt, screenshot, merge, order another, dismissal;
\* the files of a row are written only after its indicator was seen; and the
\* next row is taken only after the dismissal of the one before.
C8_RowOrder ==
    /\ \E n \in 1..MaxAttempts : IsPrefix(events, RowEvents(n))
    /\ Len(events) = 0 \/ pc \in RowPcs \cup {"iter", "aborted"}
       \/ events[Len(events)] = "ok"
    /\ (pc = "iter" /\ k >= 1) => events # <<>> /\ events[Len(events)] = "ok"
    /\ \A n \in DOMAIN receipts :
          (receipts[n].run = run /\ receipts[n].k = k /\ pc \in RowPcs)
          => \E i \in 1..Len(events) : events[i] = "seen"

C8_Witness ==
    /\ pc = "iter"
    /\ k = 2
    /\ events = RowEvents(2)

\* C9: the calls of the task body complete at most once each, in the order
\* open, download, loop, archive, clean-up; the rows are taken in file order;
\* archival starts only when every row of the file has succeeded, and clean-up
\* only when the archive has been written.
C9_StageOrder ==
    /\ IsPrefix(stages, <<"open", "download", "loop", "archive", "cleanup">>)
    /\ pc \in RowPcs => /\ k \in 1..Len(remote)
                        /\ order.OrderNumber = remote[k]
                        /\ succeeded = SubSeq(remote, 1, k - 1)
    /\ pc = "archive" => /\ stages = <<"open", "download", "loop">>
                         /\ succeeded = remote
                         /\ ~zipWritten
    /\ pc = "cleanup" => /\ stages = <<"open", "download", "loop", "archive">>
                         /\ zipWritten
    /\ pc = "done" => stages = <<"open", "download", "loop", "archive", "cleanup">>
    /\ zipWritten => pc \in {"cleanup", "done", "aborted"}

C9_Witness ==
    /\ pc = "done"
    /\ Len(remote) = 2
    /\ succeeded = remote
    /\ zipWritten

\* C10: an exception raised while row k is processed ends the run there: rows
\* 1..k-1 and no others have succeeded, nothing was archived or cleaned up, the
\* archive is as the run found it, the receipts and screenshots of rows 1..k-1
\* are in their directories, and no call follows.
C10_NoIsolation ==
    /\ [](exc # "none" /\ k >= 1 /\ Len(stages) = 2
          => /\ pc = "aborted"
             /\ succeeded = SubSeq(remote, 1, k - 1)
             /\ ~zipWritten
             /\ zipExists = start.zipExists /\ zip = start.zip
             /\ \A j \in 1..(k - 1) :
                   LET n == StrOf(IntOf(remote[j])) IN
                   /\ receiptsDir /\ n \in DOMAIN receipts
                   /\ screenshotsDir /\ n \in screenshots)
    /\ [][exc = "none"]_vars

C10_Witness ==
    /\ pc = "aborted"
    /\ exc = "ValueError"
    /\ k = 2
    /\ remote = <<(<<"1">>), (<<"x">>)>>
    /\ <<"1">> \in DOMAIN receipts
    /\ <<"1">> \in screenshots

====
